---- MODULE Spec2Model ----
(***************************************************************************)
(* Model of scripts/sync_db.py: one run of main() scans Products/ for      *)
(* *.yml files, classifies each parsed document, and writes products,      *)
(* their aliases / fuzzy patterns and filter keywords through one          *)
(* psycopg2 connection in one transaction that is committed at the end.    *)
(*                                                                         *)
(* Strings that the code inspects character by character (path names) are  *)
(* sequences of code points; strings that are only stored and compared     *)
(* (brand, model, keyword, ...) are TLA+ strings.                          *)
(***************************************************************************)
EXTENDS Integers, Sequences, FiniteSets, TLC

(* ------------------------------ bounds -------------------------------- *)
\* batch scenario: runs of the script in one behaviour, files found by a run
BatchRuns == 1
BatchFiles == 4
\* product and filter scenarios: the same two limits
StoreRuns == 2
StoreFiles == 2
\* storage faults (statements that raise on their own) in one run
MaxFaults == 1
\* inference scenario: directories between Products/ and the file
MaxDepth == 2
\* classification scenario: required keys a document may lack at each level
MaxMissing == 1

(* --------------------------- path strings ----------------------------- *)
s_Products == <<80,114,111,100,117,99,116,115>>
s_canon    == <<99,97,110,111,110>>
s_filters  == <<102,105,108,116,101,114,115>>
s_misc     == <<109,105,115,99>>
s_boost    == <<98,111,111,115,116>>
s_Boost    == <<66,111,111,115,116>>
s_reject   == <<114,101,106,101,99,116>>
s_REJECT   == <<82,69,74,69,67,84>>
s_re       == <<114,101>>
s_ject     == <<106,101,99,116>>
s_x        == <<120>>
s_space    == <<32>>
s_yml      == <<46,121,109,108>>
s_txt      == <<46,116,120,116>>

\* str.lower() on one code point (ASCII range)
LowerChar(c) == IF c >= 65 /\ c <= 90 THEN c + 32 ELSE c

\* str.lower()
Lower(s) == [i \in 1..Len(s) |-> LowerChar(s[i])]

\* `needle in haystack` on str
Contains(hay, needle) ==
    \E i \in 0..(Len(hay) - Len(needle)) :
        \A j \in 1..Len(needle) : hay[i + j] = needle[j]

\* str.endswith, the match rglob("*.yml") performs on a file name
EndsWith(s, suffix) ==
    /\ Len(s) >= Len(suffix)
    /\ \A j \in 1..Len(suffix) : s[Len(s) - Len(suffix) + j] = suffix[j]

\* str < str: code point by code point, a proper prefix first
RECURSIVE StrLess(_, _)
StrLess(a, b) ==
    IF b = <<>> THEN FALSE
    ELSE IF a = <<>> THEN TRUE
    ELSE IF a[1] # b[1] THEN a[1] < b[1]
    ELSE StrLess(Tail(a), Tail(b))

\* Path < Path: the tuples of parts, part by part
RECURSIVE PathLess(_, _)
PathLess(p, q) ==
    IF q = <<>> THEN FALSE
    ELSE IF p = <<>> THEN TRUE
    ELSE IF p[1] # q[1] THEN StrLess(p[1], q[1])
    ELSE PathLess(Tail(p), Tail(q))

\* " ".join(parts)
RECURSIVE Join(_)
Join(parts) ==
    IF parts = <<>> THEN <<>>
    ELSE IF Len(parts) = 1 THEN parts[1]
    ELSE parts[1] \o s_space \o Join(Tail(parts))

\* [p.name for p in filepath.parents] of a relative path: the directories
\* from the nearest one outwards, then "." whose name is the empty string
ParentNames(filepath) ==
    [i \in 1..Len(filepath) |->
        IF i < Len(filepath) THEN filepath[Len(filepath) - i] ELSE <<>>]

\* the haystack infer_filter_type searches
Haystack(filepath) ==
    Join(<<Lower(filepath[Len(filepath)])>>
         \o [i \in 1..Len(filepath) |-> Lower(ParentNames(filepath)[i])])

\* the two tests in the other order
infer_filter_type_boost_first(filepath) ==
    IF Contains(Haystack(filepath), s_boost) THEN "boost"
    ELSE IF Contains(Haystack(filepath), s_reject) THEN "reject"
    ELSE "none"

\* infer_filter_type: "reject", "boost" or "none" (None)
infer_filter_type(filepath) ==
    LET haystack == Haystack(filepath)
    IN  IF Contains(haystack, s_reject) THEN "reject"
        ELSE IF Contains(haystack, s_boost) THEN "boost"
        ELSE "none"

(* ------------------------- parsed documents --------------------------- *)
\* What load_yaml_file finds in a file.  load is "raise" (open or safe_load
\* raised), "null" (safe_load returned None: an empty file), "scalar" (a
\* document that is no mapping) or "map"; for a mapping, keys is its set of
\* top-level keys and t_<key> the type of the value under <key>.
required_top == {"brand", "model", "full_name", "category", "pricing", "active"}

required_pricing == {"buy_min", "buy_max", "sell_target"}

EmptyMap ==
    [load |-> "map", keys |-> {},
     t_pricing |-> "map", pricing_keys |-> {},
     t_keywords |-> "list", t_aliases |-> "list", t_fuzzy |-> "list",
     t_description |-> "str",
     brand |-> "", model |-> "", full_name |-> "", category |-> "",
     buy_min |-> 0, buy_max |-> 0, sell_target |-> 0, active |-> FALSE,
     aliases |-> <<>>, fuzzy_patterns |-> <<>>,
     keywords |-> <<>>, description |-> ""]

Malformed == [EmptyMap EXCEPT !.load = "raise"]

NullDoc == [EmptyMap EXCEPT !.load = "null"]

ScalarDoc == [EmptyMap EXCEPT !.load = "scalar"]

\* load_yaml_file returns None both when it caught an exception and when
\* the file holds no document
LoadIsNone(content) == content.load \in {"raise", "null"}

is_product_yaml_loose(data) ==
    /\ data.load = "map"
    /\ (required_top \ {"active"}) \subseteq data.keys
    /\ data.t_pricing = "map"
    /\ required_pricing \subseteq data.pricing_keys

is_product_yaml(data) ==
    /\ data.load = "map"
    /\ required_top \subseteq data.keys
    /\ data.t_pricing = "map"
    /\ required_pricing \subseteq data.pricing_keys

is_filter_yaml(data) ==
    /\ data.load = "map"
    /\ "keywords" \in data.keys
    /\ data.t_keywords = "list"

\* data.get("aliases", []) followed by `aliases or []`
AliasList(data) ==
    IF "aliases" \in data.keys /\ data.t_aliases = "list" THEN data.aliases ELSE <<>>

\* data.get("fuzzy_patterns", []) followed by `patterns or []`
PatternList(data) ==
    IF "fuzzy_patterns" \in data.keys /\ data.t_fuzzy = "list"
    THEN data.fuzzy_patterns ELSE <<>>

\* filter_data.get("keywords", []) or []
KeywordList(data) ==
    IF "keywords" \in data.keys /\ data.t_keywords = "list" THEN data.keywords ELSE <<>>

\* filter_data.get("description", "") or ""
Description(data) ==
    IF "description" \in data.keys /\ data.t_description = "str"
    THEN data.description ELSE ""

(* ----------------------------- database ------------------------------- *)
\* The four tables the statements name.  products and filter_keywords are
\* sets of rows (their uniqueness is what ON CONFLICT has to keep); the
\* child tables are sequences of rows in insertion order.
EmptyTables ==
    [products |-> {}, product_aliases |-> <<>>,
     product_fuzzy_patterns |-> <<>>, filter_keywords |-> {}]

\* Outcome of the statements of one call.  kind "ok": every execute
\* succeeds.  kind "client": the execute of the at-th data-carrying
\* statement raises before anything is sent (a parameter psycopg2 cannot
\* adapt); the transaction stays usable.  kind "server": the server rejects
\* a statement (constraint violation, wrong type); PostgreSQL then fails
\* the transaction: every later execute raises and COMMIT rolls back.
NoFault == [kind |-> "ok", at |-> 0]

ServerFault == [kind |-> "server", at |-> 0]

ClientFault(k) == [kind |-> "client", at |-> k]

Faults(n) == {NoFault, ServerFault} \cup {ClientFault(k) : k \in 1..n}

\* The connection as the cursor sees it: the uncommitted tables, whether the
\* transaction is in the failed state, and the id sequence of products.
Raise(c, fault) ==
    IF c.failed \/ fault.kind = "server" THEN [c EXCEPT !.failed = TRUE] ELSE c

ProductKeys(products) == {<<r.brand, r.model>> : r \in products}

\* INSERT INTO products ... ON CONFLICT (brand, model) DO NOTHING-like slip:
\* a conflicting row is added next to the stored one
UpsertRowsDuplicating(products, d, id, now) ==
    products \cup
        {[id |-> id, brand |-> d.brand, model |-> d.model,
          full_name |-> d.full_name, category |-> d.category,
          buy_price_min |-> d.buy_min, buy_price_max |-> d.buy_max,
          sell_target |-> d.sell_target, active |-> d.active,
          created_at |-> now, updated_at |-> now]}

\* INSERT INTO products ... ON CONFLICT (brand, model) DO UPDATE SET ...
\* id is the value the sequence offers, now is CURRENT_TIMESTAMP
UpsertRows(products, d, id, now) ==
    LET hit == {r \in products : r.brand = d.brand /\ r.model = d.model}
    IN  IF hit = {}
        THEN products \cup
                {[id |-> id, brand |-> d.brand, model |-> d.model,
                  full_name |-> d.full_name, category |-> d.category,
                  buy_price_min |-> d.buy_min, buy_price_max |-> d.buy_max,
                  sell_target |-> d.sell_target, active |-> d.active,
                  created_at |-> now, updated_at |-> now]}
        ELSE (products \ hit) \cup
                {[r EXCEPT !.full_name = d.full_name, !.category = d.category,
                           !.buy_price_min = d.buy_min,
                           !.buy_price_max = d.buy_max,
                           !.sell_target = d.sell_target,
                           !.active = d.active, !.updated_at = now] : r \in hit}

\* upsert_product: the connection afterwards, the returned id (0 for None)
\* and the lines printed
upsert_product(c, product_data, fault, now) ==
    IF c.failed \/ fault.kind # "ok"
    THEN [c |-> Raise(c, fault), id |-> 0, out |-> <<"Error upserting product">>]
    ELSE LET rows == UpsertRows(c.tx.products, product_data, c.next_id, now)
             row  == CHOOSE r \in rows :
                        r.brand = product_data.brand /\ r.model = product_data.model
         IN  [c   |-> [c EXCEPT !.tx.products = rows,
                                !.next_id = IF row.id = c.next_id THEN @ + 1 ELSE @],
              id  |-> row.id,
              out |-> <<>>]

\* DELETE FROM <child table> WHERE product_id = %s
DeleteChildren(rows, product_id) ==
    SelectSeq(rows, LAMBDA r : r.product_id # product_id)

\* the rows of one product, in table order
ChildValues(rows, product_id) ==
    LET mine == SelectSeq(rows, LAMBDA r : r.product_id = product_id)
    IN  [i \in 1..Len(mine) |-> mine[i].value]

\* INSERT INTO <child table> (product_id, value) for values[1..n]
InsertChildren(rows, product_id, values, n) ==
    rows \o [i \in 1..n |-> [product_id |-> product_id, value |-> values[i]]]

\* a sync that forgets the DELETE
ReplaceChildrenAppending(rows, product_id, values, fault) ==
    IF fault.kind = "client"
    THEN InsertChildren(rows, product_id, values, fault.at - 1)
    ELSE InsertChildren(rows, product_id, values, Len(values))

\* the body of sync_aliases / sync_fuzzy_patterns on one child table: the
\* DELETE, then one INSERT per value until one raises
ReplaceChildren(rows, product_id, values, fault) ==
    IF fault.kind = "client"
    THEN InsertChildren(DeleteChildren(rows, product_id), product_id, values,
                        fault.at - 1)
    ELSE InsertChildren(DeleteChildren(rows, product_id), product_id, values,
                        Len(values))

sync_aliases(c, product_id, aliases, fault) ==
    IF c.failed \/ fault.kind = "server"
    THEN [c |-> Raise(c, fault), out |-> <<"Error syncing aliases">>]
    ELSE [c   |-> [c EXCEPT !.tx.product_aliases =
                        ReplaceChildren(@, product_id, aliases, fault)],
          out |-> IF fault.kind = "client"
                  THEN <<"Error syncing aliases">> ELSE <<>>]

sync_fuzzy_patterns(c, product_id, patterns, fault) ==
    IF c.failed \/ fault.kind = "server"
    THEN [c |-> Raise(c, fault), out |-> <<"Error syncing fuzzy patterns">>]
    ELSE [c   |-> [c EXCEPT !.tx.product_fuzzy_patterns =
                        ReplaceChildren(@, product_id, patterns, fault)],
          out |-> IF fault.kind = "client"
                  THEN <<"Error syncing fuzzy patterns">> ELSE <<>>]

FilterKeys(rows) == {<<r.keyword, r.filter_type>> : r \in rows}

\* a sync that mirrors the file: the rows of this filter_type are dropped first
UpsertKeywordMirroring(rows, keyword, filter_type, description) ==
    {r \in rows : r.filter_type # filter_type} \cup
        {[keyword |-> keyword, filter_type |-> filter_type,
          description |-> description]}

\* INSERT INTO filter_keywords ... ON CONFLICT (keyword, filter_type)
\* DO UPDATE SET description = EXCLUDED.description
UpsertKeyword(rows, keyword, filter_type, description) ==
    {r \in rows : ~(r.keyword = keyword /\ r.filter_type = filter_type)} \cup
        {[keyword |-> keyword, filter_type |-> filter_type,
          description |-> description]}

RECURSIVE UpsertKeywords(_, _, _, _, _)
UpsertKeywords(rows, keywords, n, filter_type, description) ==
    IF n = 0 THEN rows
    ELSE UpsertKeyword(UpsertKeywords(rows, keywords, n - 1, filter_type, description),
                       keywords[n], filter_type, description)

sync_filter_keywords(c, filter_data, filter_type, fault) ==
    IF (c.failed \/ fault.kind = "server") /\ KeywordList(filter_data) # <<>>
    THEN [c |-> Raise(c, fault), out |-> <<"Error syncing keywords">>]
    ELSE [c   |-> [c EXCEPT !.tx.filter_keywords =
                        UpsertKeywords(@, KeywordList(filter_data),
                                       IF fault.kind = "client" THEN fault.at - 1
                                       ELSE Len(KeywordList(filter_data)),
                                       filter_type, Description(filter_data))],
          out |-> IF fault.kind = "client"
                  THEN <<"Error syncing keywords">> ELSE <<>>]

(* ------------------------------- files -------------------------------- *)
ProductR5 ==
    [EmptyMap EXCEPT !.keys = required_top \cup {"aliases", "fuzzy_patterns"},
                     !.pricing_keys = required_pricing,
                     !.brand = "Canon", !.model = "R5",
                     !.full_name = "Canon EOS R5", !.category = "mirrorless",
                     !.buy_min = 10, !.buy_max = 20, !.sell_target = 30,
                     !.active = TRUE,
                     !.aliases = <<"R5", "EOS R5">>,
                     !.fuzzy_patterns = <<"eos r5">>]

\* the same (brand, model) with every other field changed, an empty alias
\* list and no fuzzy_patterns key
ProductR5v2 ==
    [EmptyMap EXCEPT !.keys = required_top \cup {"aliases"},
                     !.pricing_keys = required_pricing,
                     !.brand = "Canon", !.model = "R5",
                     !.full_name = "EOS R5 body", !.category = "camera",
                     !.buy_min = 11, !.buy_max = 21, !.sell_target = 31,
                     !.active = FALSE]

\* a brand that differs in case only, a duplicated alias, a null
\* fuzzy_patterns value, and a keywords list (it passes both tests)
ProductLower ==
    [EmptyMap EXCEPT !.keys = required_top \cup
                                {"aliases", "fuzzy_patterns", "keywords"},
                     !.pricing_keys = required_pricing,
                     !.brand = "canon", !.model = "R5",
                     !.full_name = "canon r5", !.category = "mirrorless",
                     !.buy_min = 12, !.buy_max = 22, !.sell_target = 32,
                     !.active = TRUE,
                     !.aliases = <<"r5", "r5">>,
                     !.t_fuzzy = "null",
                     !.keywords = <<"mint">>]

FilterTwo ==
    [EmptyMap EXCEPT !.keys = {"keywords", "description"},
                     !.keywords = <<"broken", "parts">>, !.description = "X"]

FilterOne ==
    [EmptyMap EXCEPT !.keys = {"keywords", "description"},
                     !.keywords = <<"broken">>, !.description = "Y"]

FilterBare ==
    [EmptyMap EXCEPT !.keys = {"keywords"}, !.keywords = <<"broken">>]

File(path, content) == [path |-> path, content |-> content]

p_r5      == <<s_Products, s_canon, <<114,53>> \o s_yml>>
p_r5v2    == <<s_Products, s_canon, <<114,53,95,118,50>> \o s_yml>>
p_lower   == <<s_Products, s_boost, s_canon \o s_yml>>
p_reject  == <<s_Products, s_filters, s_reject \o s_yml>>
p_REJECT2 == <<s_Products, s_filters, s_REJECT \o <<50>> \o s_yml>>
p_Boost   == <<s_Products, s_filters, s_Boost \o s_yml>>
p_words   == <<s_Products, s_misc, s_x \o s_yml>>
p_empty   == <<s_Products, s_misc, <<101>> \o s_yml>>
p_bad     == <<s_Products, s_misc, <<98>> \o s_yml>>
p_null    == <<s_Products, s_misc, <<110>> \o s_yml>>
p_notes   == <<s_Products, s_misc, <<110>> \o s_txt>>

\* batch scenario: one file of every kind main tells apart
BatchCatalogue ==
    [r5 |-> File(p_r5, ProductR5), lower |-> File(p_lower, ProductLower),
     reject |-> File(p_reject, FilterTwo), words |-> File(p_words, FilterBare),
     empty |-> File(p_empty, EmptyMap), bad |-> File(p_bad, Malformed),
     null |-> File(p_null, NullDoc), notes |-> File(p_notes, ProductR5)]

\* product scenario: files that write the same (brand, model) with
\* different values (r5_rev is a later revision of r5), and one that
\* differs from them in case only
ProductCatalogue ==
    [r5 |-> File(p_r5, ProductR5), r5v2 |-> File(p_r5v2, ProductR5v2),
     r5_rev |-> File(p_r5, ProductR5v2), lower |-> File(p_lower, ProductLower)]

\* filter scenario: files that write the same keyword under both types and
\* with different descriptions, and a later revision that drops a keyword
FilterCatalogue ==
    [reject |-> File(p_reject, FilterTwo), reject_rev |-> File(p_reject, FilterOne),
     reject2 |-> File(p_REJECT2, FilterOne), boost |-> File(p_Boost, FilterBare)]

\* classification scenario: one mapping per choice of present keys and of
\* the types of the pricing and keywords values, and the three other loads
Lacking(keys) == {m \in SUBSET keys : Cardinality(m) <= MaxMissing}

ClassifyDocs ==
    {Malformed, NullDoc, ScalarDoc} \cup
    { [ProductLower EXCEPT !.keys = (required_top \ m) \cup k,
                           !.t_pricing = tp,
                           !.pricing_keys = required_pricing \ pm,
                           !.t_keywords = tk] :
        m \in Lacking(required_top), k \in {{}, {"keywords"}},
        tp \in {"map", "scalar"}, pm \in Lacking(required_pricing),
        tk \in {"list", "scalar"} }

\* inference scenario: the names a path may be made of
Names == {s_reject, s_REJECT, s_boost, s_Boost, s_re, s_ject, s_x}

RECURSIVE Dirs(_)
Dirs(n) ==
    IF n = 0 THEN {<<>>}
    ELSE Dirs(n - 1) \cup {<<d>> \o ds : d \in Names, ds \in Dirs(n - 1)}

InferPaths ==
    {<<s_Products>> \o ds \o <<stem \o s_yml>> : ds \in Dirs(MaxDepth), stem \in Names}

\* products_root.rglob("*.yml")
Rglob(files) == {f.path : f \in {g \in files : EndsWith(g.path[Len(g.path)], s_yml)}}

\* sorted(paths)
RECURSIVE Sorted(_)
Sorted(paths) ==
    IF paths = {} THEN <<>>
    ELSE LET first == CHOOSE p \in paths : \A q \in paths \ {p} : PathLess(p, q)
         IN  <<first>> \o Sorted(paths \ {first})

\* what filepath.open / yaml.safe_load find at a path
Content(files, path) == (CHOOSE f \in files : f.path = path).content

(* ------------------------------- state -------------------------------- *)
VARIABLES
    scenario,               \* which files a run may find, and the limits (fixed)
    disk,                   \* the files (catalogue names) present in this run
    pc,                     \* "idle", "loop" (inside main's try), "done"
    run,                    \* runs started; CURRENT_TIMESTAMP of this run's transaction
    yaml_files, idx,        \* the sorted paths and the position of the for loop
    db,                     \* the committed tables
    db0,                    \* the committed tables when this run started
    tx, tx_failed,          \* the tables as this run's transaction sees them
    id_seq,                 \* next value of the products id sequence
    faults,                 \* storage faults met so far in this run
    products_synced, filter_keywords_synced, skipped, errors,
    console,                \* the per-file lines printed in this run
    commit_called,          \* conn.commit() was called
    committed, rolled_back, \* conn.commit() returned / conn.rollback() was called
    exit_code               \* -1 while the process runs

vars == <<scenario, disk, pc, run, yaml_files, idx, db, db0, tx, tx_failed,
          id_seq, faults, products_synced, filter_keywords_synced, skipped, errors,
          console, commit_called, committed, rolled_back, exit_code>>

Fresh ==
    /\ disk = {}
    /\ pc = "idle"
    /\ yaml_files = <<>>
    /\ idx = 0
    /\ faults = 0
    /\ products_synced = 0
    /\ filter_keywords_synced = 0
    /\ skipped = 0
    /\ errors = 0
    /\ console = <<>>
    /\ commit_called = FALSE
    /\ committed = FALSE
    /\ rolled_back = FALSE
    /\ exit_code = -1

\* pick is the document of a classification scenario and the path of an
\* inference scenario
Scenario(name, pick, max_files, max_runs) ==
    [name |-> name, pick |-> pick, max_files |-> max_files, max_runs |-> max_runs]

\* the files a run of this scenario may find, by name
Catalogue ==
    CASE scenario.name = "batch" -> BatchCatalogue
      [] scenario.name = "products" -> ProductCatalogue
      [] scenario.name = "filters" -> FilterCatalogue
      [] scenario.name = "classify" -> [f |-> File(p_Boost, scenario.pick)]
      [] scenario.name = "infer" -> [f |-> File(scenario.pick, FilterTwo)]

\* the files under the working directory
Files == {Catalogue[i] : i \in disk}

Start ==
    /\ run = 0
    /\ db = EmptyTables
    /\ db0 = EmptyTables
    /\ tx = EmptyTables
    /\ tx_failed = FALSE
    /\ id_seq = 1
    /\ Fresh

Init == scenario = Scenario("batch", 0, BatchFiles, BatchRuns) /\ Start

InitProducts == scenario = Scenario("products", 0, StoreFiles, StoreRuns) /\ Start

InitFilters == scenario = Scenario("filters", 0, StoreFiles, StoreRuns) /\ Start

InitClassify ==
    /\ \E d \in ClassifyDocs : scenario = Scenario("classify", d, 1, 1)
    /\ Start

InitInfer ==
    /\ \E p \in InferPaths : scenario = Scenario("infer", p, 1, 1)
    /\ Start

(* ----------------------------- one file ------------------------------- *)
\* load_yaml_file: whether it returns None, and what it prints
load_yaml_file(content) ==
    [none |-> LoadIsNone(content),
     out  |-> IF content.load = "raise" THEN <<"Error reading">> ELSE <<>>]

Outcome(c, out, p, k, s, e) ==
    [c |-> c, out |-> out, products |-> p, keywords |-> k, skipped |-> s, errors |-> e]

FaultCount(f) ==
    Cardinality({k \in {"upsert", "aliases", "patterns", "keywords"} :
                    f[k].kind # "ok"})

\* The fault plans one iteration can meet: one fault per call it makes, at
\* most budget of them.  In a failed transaction every statement raises
\* whatever the plan says.
FaultPlans(data, failed, budget) ==
    LET quiet == [upsert |-> NoFault, aliases |-> NoFault,
                  patterns |-> NoFault, keywords |-> NoFault]
        plans ==
            IF failed \/ LoadIsNone(data) THEN {quiet}
            ELSE IF is_product_yaml(data)
            THEN {quiet}
                 \cup {[quiet EXCEPT !.upsert = u] : u \in {ServerFault, ClientFault(1)}}
                 \cup {[quiet EXCEPT !.aliases = ServerFault]}
                 \cup {[quiet EXCEPT !.aliases = a, !.patterns = q] :
                         a \in Faults(Len(AliasList(data))) \ {ServerFault},
                         q \in Faults(Len(PatternList(data)))}
            ELSE IF is_filter_yaml(data) /\ KeywordList(data) # <<>>
            THEN {[quiet EXCEPT !.keywords = k] :
                    k \in Faults(Len(KeywordList(data)))}
            ELSE {quiet}
    IN  {f \in plans : FaultCount(f) <= budget}

\* the body of main's for loop for one file
LoopBody(c, filepath, content, f, now) ==
    LET loaded == load_yaml_file(content)
    IN  IF loaded.none THEN Outcome(c, loaded.out, 0, 0, 0, 1)
        ELSE IF is_product_yaml(content)
        THEN LET u == upsert_product(c, content, f.upsert, now)
             IN  IF u.id # 0
                 THEN LET a == sync_aliases(u.c, u.id, AliasList(content), f.aliases)
                          q == sync_fuzzy_patterns(a.c, u.id, PatternList(content),
                                                   f.patterns)
                      IN  Outcome(q.c, u.out \o a.out \o q.out \o <<"Synced product">>,
                                  1, 0, 0, 0)
                 ELSE Outcome(u.c, u.out, 0, 0, 0, 1)
        ELSE IF is_filter_yaml(content)
        THEN LET filter_type == infer_filter_type(filepath)
             IN  IF filter_type = "none"
                 THEN Outcome(c, <<"Skipped filter file (unknown type)">>, 0, 0, 1, 0)
                 ELSE LET s == sync_filter_keywords(c, content, filter_type, f.keywords)
                      IN  Outcome(s.c, s.out \o <<"Synced keywords">>,
                                  0, Len(KeywordList(content)), 0, 0)
        ELSE Outcome(c, <<"Skipped unknown YAML schema">>, 0, 0, 1, 0)

Conn == [tx |-> tx, failed |-> tx_failed, next_id |-> id_seq]

(* ------------------------------ actions ------------------------------- *)
\* main: Products/ does not exist
MainNoFolder ==
    /\ pc = "idle"
    /\ run < scenario.max_runs
    /\ run' = run + 1
    /\ pc' = "done"
    /\ exit_code' = 0
    /\ UNCHANGED <<scenario, disk, yaml_files, idx, db, db0, tx, tx_failed, id_seq, faults,
                   products_synced, filter_keywords_synced, skipped, errors,
                   console, commit_called, committed, rolled_back>>

\* main: connect_db fails
MainConnectFails ==
    /\ pc = "idle"
    /\ run < scenario.max_runs
    /\ run' = run + 1
    /\ pc' = "done"
    /\ exit_code' = 1
    /\ UNCHANGED <<scenario, disk, yaml_files, idx, db, db0, tx, tx_failed, id_seq, faults,
                   products_synced, filter_keywords_synced, skipped, errors,
                   console, commit_called, committed, rolled_back>>

\* main up to the for loop: connect, zero the counters, list and sort the files
MainScan ==
    /\ pc = "idle"
    /\ run < scenario.max_runs
    /\ \E names \in SUBSET DOMAIN Catalogue :
        /\ Cardinality(names) <= scenario.max_files
        /\ \A i, j \in names : Catalogue[i].path = Catalogue[j].path => i = j
        /\ disk' = names
        /\ yaml_files' = Sorted(Rglob({Catalogue[i] : i \in names}))
    /\ run' = run + 1
    /\ pc' = "loop"
    /\ idx' = 1
    /\ db0' = db
    /\ tx' = db
    /\ tx_failed' = FALSE
    /\ faults' = 0
    /\ products_synced' = 0
    /\ filter_keywords_synced' = 0
    /\ skipped' = 0
    /\ errors' = 0
    /\ UNCHANGED <<scenario, db, id_seq, console, commit_called, committed, rolled_back,
                   exit_code>>

\* one iteration of the for loop
LoopIteration ==
    /\ pc = "loop"
    /\ idx <= Len(yaml_files)
    /\ \E f \in FaultPlans(Content(Files, yaml_files[idx]), tx_failed,
                          MaxFaults - faults) :
        LET o == LoopBody(Conn, yaml_files[idx], Content(Files, yaml_files[idx]), f, run)
        IN  /\ tx' = o.c.tx
            /\ tx_failed' = o.c.failed
            /\ id_seq' = o.c.next_id
            /\ faults' = faults + FaultCount(f)
            /\ products_synced' = products_synced + o.products
            /\ filter_keywords_synced' = filter_keywords_synced + o.keywords
            /\ skipped' = skipped + o.skipped
            /\ errors' = errors + o.errors
            /\ console' = console \o [i \in 1..Len(o.out) |->
                                        [file |-> idx, msg |-> o.out[i]]]
    /\ idx' = idx + 1
    /\ UNCHANGED <<scenario, disk, pc, run, yaml_files, db, db0,
                   commit_called, committed, rolled_back, exit_code>>

\* the except branch committing what was staged instead of rolling back
UnhandledExceptionCommits ==
    /\ pc = "loop"
    /\ idx <= Len(yaml_files) + 1
    /\ db' = tx
    /\ tx' = tx
    /\ tx_failed' = FALSE
    /\ rolled_back' = TRUE
    /\ exit_code' = 1
    /\ pc' = "done"
    /\ UNCHANGED <<scenario, disk, run, yaml_files, idx, db0, id_seq, faults,
                   products_synced, filter_keywords_synced, skipped, errors,
                   console, commit_called, committed>>

\* an exception nothing inside the loop catches (a print that raises, the
\* directory walk failing): except Exception -> conn.rollback(); sys.exit(1)
UnhandledException ==
    /\ pc = "loop"
    /\ idx <= Len(yaml_files) + 1
    /\ tx' = db
    /\ tx_failed' = FALSE
    /\ rolled_back' = TRUE
    /\ exit_code' = 1
    /\ pc' = "done"
    /\ UNCHANGED <<scenario, disk, run, yaml_files, idx, db, db0, id_seq, faults,
                   products_synced, filter_keywords_synced, skipped, errors,
                   console, commit_called, committed>>

\* what COMMIT leaves in the committed tables: the staged ones, unless the
\* transaction has failed, when the server rolls it back instead
CommitResult(stored, staged, failed) == IF failed THEN stored ELSE staged

\* conn.commit() returns and the summary is printed
Commit ==
    /\ pc = "loop"
    /\ idx = Len(yaml_files) + 1
    /\ db' = CommitResult(db, tx, tx_failed)
    /\ tx' = db'
    /\ tx_failed' = FALSE
    /\ commit_called' = TRUE
    /\ committed' = TRUE
    /\ exit_code' = 0
    /\ pc' = "done"
    /\ UNCHANGED <<scenario, disk, run, yaml_files, idx, db0, id_seq, faults,
                   products_synced, filter_keywords_synced, skipped, errors,
                   console, rolled_back>>

\* conn.commit() raises (the connection is lost): the except branch
CommitRaises ==
    /\ pc = "loop"
    /\ idx = Len(yaml_files) + 1
    /\ tx' = db
    /\ tx_failed' = FALSE
    /\ commit_called' = TRUE
    /\ rolled_back' = TRUE
    /\ exit_code' = 1
    /\ pc' = "done"
    /\ UNCHANGED <<scenario, disk, run, yaml_files, idx, db, db0, id_seq, faults,
                   products_synced, filter_keywords_synced, skipped, errors,
                   console, committed>>

\* finally: cursor.close(); conn.close(); the process ends
Exit ==
    /\ pc = "done"
    /\ disk' = {}
    /\ pc' = "idle"
    /\ yaml_files' = <<>>
    /\ idx' = 0
    /\ db0' = db
    /\ tx' = db
    /\ tx_failed' = FALSE
    /\ faults' = 0
    /\ products_synced' = 0
    /\ filter_keywords_synced' = 0
    /\ skipped' = 0
    /\ errors' = 0
    /\ console' = <<>>
    /\ commit_called' = FALSE
    /\ committed' = FALSE
    /\ rolled_back' = FALSE
    /\ exit_code' = -1
    /\ UNCHANGED <<scenario, run, db, id_seq>>

Next ==
    \/ MainNoFolder
    \/ MainConnectFails
    \/ MainScan
    \/ LoopIteration
    \/ UnhandledException
    \/ Commit
    \/ CommitRaises
    \/ Exit

Spec == Init /\ [][Next]_vars

SpecProducts == InitProducts /\ [][Next]_vars

SpecFilters == InitFilters /\ [][Next]_vars

SpecClassify == InitClassify /\ [][Next]_vars

SpecInfer == InitInfer /\ [][Next]_vars

(* ------------------------ reading a run's state ------------------------ *)
\* the positions of yaml_files the loop has been through
Processed == 1..(idx - 1)

FileAt(i) == Content(Files, yaml_files[i])

\* the lines printed for the i-th file
LinesOf(i) == SelectSeq(console, LAMBDA l : l.file = i)

Said(i, msg) == \E k \in DOMAIN console : console[k] = [file |-> i, msg |-> msg]

StorageErrors ==
    {"Error upserting product", "Error syncing aliases",
     "Error syncing fuzzy patterns", "Error syncing keywords"}

HasStorageError(i) == \E m \in StorageErrors : Said(i, m)

ProductFiles == {i \in Processed : is_product_yaml(FileAt(i))}

FilterFiles ==
    {i \in Processed : ~is_product_yaml(FileAt(i)) /\ is_filter_yaml(FileAt(i))}

TypedFilterFiles == {i \in FilterFiles : infer_filter_type(yaml_files[i]) # "none"}

UpsertFailed == {i \in ProductFiles : Said(i, "Error upserting product")}

RECURSIVE KeywordTotal(_)
KeywordTotal(files) ==
    IF files = {} THEN 0
    ELSE LET i == CHOOSE j \in files : TRUE
         IN  Len(KeywordList(FileAt(i))) + KeywordTotal(files \ {i})

\* the run went through every file and conn.commit() returned
RunCommitted == pc = "done" /\ committed /\ idx = Len(yaml_files) + 1

(* ------------------------------- claims ------------------------------- *)
\* C1 (as claimed): in a run whose connection succeeds and where
\* upsert_product fails for exactly one product file, that file adds one to
\* errors and nothing to products synced, the loop goes on through every
\* file, commit is reached without a rollback, the exit status is 0, and the
\* rows of every other product or typed filter file are in the committed
\* tables.
C1_OneFailedUpsertOthersCommitted ==
    (pc = "done" /\ idx >= 1 /\ ~rolled_back /\ Cardinality(UpsertFailed) = 1) =>
        /\ idx = Len(yaml_files) + 1
        /\ committed
        /\ exit_code = 0
        /\ products_synced = Cardinality(ProductFiles) - 1
        /\ errors = Cardinality({i \in Processed : LoadIsNone(FileAt(i))}) + 1
        /\ \A i \in ProductFiles \ UpsertFailed :
              <<FileAt(i).brand, FileAt(i).model>> \in ProductKeys(db.products)
        /\ \A i \in TypedFilterFiles :
              \A k \in 1..Len(KeywordList(FileAt(i))) :
                  <<KeywordList(FileAt(i))[k], infer_filter_type(yaml_files[i])>>
                      \in FilterKeys(db.filter_keywords)

\* C3 (as claimed): every storage error caught while a file is processed
\* adds one to errors for that file, the file is not reported as synced, and
\* a failed upsert is followed by no child sync.
C3_EveryStorageErrorCounted ==
    /\ errors = Cardinality({i \in Processed : LoadIsNone(FileAt(i))})
                + Cardinality({i \in Processed : HasStorageError(i)})
    /\ \A i \in Processed :
          HasStorageError(i) =>
              /\ ~Said(i, "Synced product")
              /\ ~Said(i, "Synced keywords")
    /\ \A i \in UpsertFailed : Len(LinesOf(i)) = 1

\* C9 (as claimed): whenever processing a file adds to errors or to skipped,
\* exactly one console line is printed for that file.
C9_EveryErrorOrSkipHasOneLine ==
    [][(pc = "loop" /\ (errors' > errors \/ skipped' > skipped))
          => /\ Len(console') = Len(console) + 1
             /\ console'[Len(console')].file = idx]_vars

\* C10 (as claimed): in a run that commits every discovered file is
\* processed once in sorted path order, and products synced = product files
\* whose upsert returned an id, filter keywords synced = total length of the
\* keywords lists of typed filter files, skipped = unrecognized files plus
\* untyped filter files, errors = malformed or unreadable files plus product
\* files whose upsert failed.
C10_CountersMatchOutcomeClasses ==
    RunCommitted =>
        /\ {yaml_files[i] : i \in 1..Len(yaml_files)} = Rglob(Files)
        /\ \A i, j \in 1..Len(yaml_files) :
              i < j => PathLess(yaml_files[i], yaml_files[j])
        /\ products_synced = Cardinality(ProductFiles \ UpsertFailed)
        /\ filter_keywords_synced = KeywordTotal(TypedFilterFiles)
        /\ skipped = Cardinality({i \in Processed :
                                    /\ i \notin ProductFiles \cup FilterFiles
                                    /\ FileAt(i).load # "raise"})
                     + Cardinality(FilterFiles \ TypedFilterFiles)
        /\ errors = Cardinality({i \in Processed : FileAt(i).load = "raise"})
                    + Cardinality(UpsertFailed)

UniqueProducts(products) ==
    \A r1, r2 \in products :
        (r1.brand = r2.brand /\ r1.model = r2.model) => r1 = r2

\* the lines the step being taken prints
NewLines == SubSeq(console', Len(console) + 1, Len(console'))

NewlySaid(msg) == \E k \in DOMAIN NewLines : NewLines[k].msg = msg

\* the step being taken is a loop iteration in which upsert_product
\* returned an id
UpsertStep ==
    /\ pc = "loop"
    /\ idx' = idx + 1
    /\ products_synced' = products_synced + 1

\* C4: products never holds two rows with the same (brand, model); an
\* upsert that returns an id leaves exactly one row for its key, carrying
\* the file's full_name, category, prices and active and the current
\* timestamp as updated_at; if the key was stored already, no row is added,
\* the id returned is that of the stored row, and its id, brand, model and
\* created_at are kept; every row of another key is unchanged.
C4_UpsertKeepsOneRowPerKey ==
    [][/\ UniqueProducts(tx'.products)
       /\ UniqueProducts(db'.products)
       /\ UpsertStep =>
            LET d     == FileAt(idx)
                mine(r) == r.brand = d.brand /\ r.model = d.model
                old   == {r \in tx.products : mine(r)}
                new   == {r \in tx'.products : mine(r)}
            IN  /\ Cardinality(new) = 1
                /\ {r \in tx'.products : ~mine(r)} = {r \in tx.products : ~mine(r)}
                /\ \A n \in new :
                      /\ n.full_name = d.full_name
                      /\ n.category = d.category
                      /\ n.buy_price_min = d.buy_min
                      /\ n.buy_price_max = d.buy_max
                      /\ n.sell_target = d.sell_target
                      /\ n.active = d.active
                      /\ n.updated_at = run
                      /\ upsert_product(Conn, d, NoFault, run).id = n.id
                /\ old # {} =>
                      /\ Cardinality(tx'.products) = Cardinality(tx.products)
                      /\ \A o \in old, n \in new :
                            /\ n.id = o.id
                            /\ n.brand = o.brand
                            /\ n.model = o.model
                            /\ n.created_at = o.created_at
                /\ old = {} => \A n \in new : \A r \in tx.products : r.id # n.id]_vars

\* a row created in an earlier run was updated in this one, next to the row
\* of the brand that differs in case only
C4_Witness ==
    /\ pc = "loop"
    /\ products_synced >= 1
    /\ \E r, q \in tx.products :
          /\ r.brand = "Canon" /\ q.brand = "canon"
          /\ r.created_at < r.updated_at
          /\ r.full_name = "EOS R5 body"
          /\ \E o \in db.products : o.id = r.id /\ o.full_name = "Canon EOS R5"

\* the list a file gives for a child collection: empty when the key is
\* absent or null
GivenList(d, key, type, values) ==
    IF key \in d.keys /\ type = "list" THEN values ELSE <<>>

\* C5: when a child sync raises nothing, the rows of the product are the
\* given list, in order and with its duplicates, whatever rows it had
\* before (none for an empty, null or absent list); the rows of every other
\* product are unchanged; and syncing the same list again leaves the same
\* rows.
C5_ChildRowsReplacedWholesale ==
    [][UpsertStep =>
        LET d    == FileAt(idx)
            pid  == (CHOOSE r \in tx'.products :
                        r.brand = d.brand /\ r.model = d.model).id
            ids  == {r.id : r \in tx'.products}
            as   == GivenList(d, "aliases", d.t_aliases, d.aliases)
            ps   == GivenList(d, "fuzzy_patterns", d.t_fuzzy, d.fuzzy_patterns)
        IN  /\ ~NewlySaid("Error syncing aliases") =>
                /\ ChildValues(tx'.product_aliases, pid) = as
                /\ \A q \in ids \ {pid} :
                      ChildValues(tx'.product_aliases, q)
                          = ChildValues(tx.product_aliases, q)
                /\ \A q \in ids :
                      ChildValues(ReplaceChildren(tx'.product_aliases, pid, as, NoFault), q)
                          = ChildValues(tx'.product_aliases, q)
            /\ ~NewlySaid("Error syncing fuzzy patterns") =>
                /\ ChildValues(tx'.product_fuzzy_patterns, pid) = ps
                /\ \A q \in ids \ {pid} :
                      ChildValues(tx'.product_fuzzy_patterns, q)
                          = ChildValues(tx.product_fuzzy_patterns, q)
                /\ \A q \in ids :
                      ChildValues(ReplaceChildren(tx'.product_fuzzy_patterns, pid, ps,
                                                  NoFault), q)
                          = ChildValues(tx'.product_fuzzy_patterns, q)]_vars

\* a product committed with aliases [R5, EOS R5] and one pattern has been
\* synced again with an empty alias list and no fuzzy_patterns key, beside
\* a product whose duplicated alias was synced twice
C5_Witness ==
    /\ pc = "loop"
    /\ ~tx_failed
    /\ \E o \in db.products, r, q \in tx.products :
          /\ o.id = r.id
          /\ r.full_name = "EOS R5 body"
          /\ ChildValues(db.product_aliases, o.id) = <<"R5", "EOS R5">>
          /\ ChildValues(db.product_fuzzy_patterns, o.id) = <<"eos r5">>
          /\ ChildValues(tx.product_aliases, r.id) = <<>>
          /\ ChildValues(tx.product_fuzzy_patterns, r.id) = <<>>
          /\ q.brand = "canon"
          /\ q.created_at < q.updated_at
          /\ ChildValues(tx.product_aliases, q.id) = <<"r5", "r5">>

UniqueFilters(rows) ==
    \A r1, r2 \in rows :
        (r1.keyword = r2.keyword /\ r1.filter_type = r2.filter_type) => r1 = r2

\* the step being taken is a loop iteration in which sync_filter_keywords
\* ran and raised nothing
FilterStep ==
    /\ pc = "loop"
    /\ idx' = idx + 1
    /\ NewlySaid("Synced keywords")
    /\ ~NewlySaid("Error syncing keywords")

\* C6: no step removes a (keyword, filter_type) key from the committed
\* filter_keywords, and no loop iteration removes one from the staged
\* table; there is at most one row per key; a sync that raises nothing
\* leaves, for every keyword of the file, the row of that keyword and the
\* file's type with the file's description, and leaves every row of another
\* key (the same keyword under the other type included) as it was.
C6_FilterKeywordsOnlyGrow ==
    [][/\ FilterKeys(db.filter_keywords) \subseteq FilterKeys(db'.filter_keywords)
       /\ (pc = "loop" /\ pc' = "loop") =>
            FilterKeys(tx.filter_keywords) \subseteq FilterKeys(tx'.filter_keywords)
       /\ UniqueFilters(tx'.filter_keywords)
       /\ UniqueFilters(db'.filter_keywords)
       /\ FilterStep =>
            LET d    == FileAt(idx)
                t    == infer_filter_type(yaml_files[idx])
                desc == IF "description" \in d.keys THEN d.description ELSE ""
                written == {<<d.keywords[k], t>> : k \in 1..Len(d.keywords)}
            IN  /\ \A k \in 1..Len(d.keywords) :
                      [keyword |-> d.keywords[k], filter_type |-> t,
                       description |-> desc] \in tx'.filter_keywords
                /\ \A r \in tx.filter_keywords :
                      <<r.keyword, r.filter_type>> \notin written
                          => r \in tx'.filter_keywords
                /\ FilterKeys(tx'.filter_keywords)
                      = FilterKeys(tx.filter_keywords) \cup written]_vars

\* the second run found only a revision of reject.yml that lacks "parts" and
\* has another description: "parts" is still stored, "broken" under reject
\* has the new description, "broken" under boost is as the first run left it
C6_Witness ==
    /\ pc = "done"
    /\ committed
    /\ run = 2
    /\ disk = {"reject_rev"}
    /\ db.filter_keywords =
          {[keyword |-> "parts", filter_type |-> "reject", description |-> "X"],
           [keyword |-> "broken", filter_type |-> "reject", description |-> "Y"],
           [keyword |-> "broken", filter_type |-> "boost", description |-> ""]}

\* the one file of a classification or inference scenario
TheFile == Catalogue.f

ClaimedProduct(d) ==
    /\ d.load = "map"
    /\ "brand" \in d.keys /\ "model" \in d.keys /\ "full_name" \in d.keys
    /\ "category" \in d.keys /\ "pricing" \in d.keys /\ "active" \in d.keys
    /\ d.t_pricing = "map"
    /\ "buy_min" \in d.pricing_keys /\ "buy_max" \in d.pricing_keys
    /\ "sell_target" \in d.pricing_keys

ClaimedFilter(d) ==
    ~ClaimedProduct(d) /\ d.load = "map" /\ "keywords" \in d.keys /\ d.t_keywords = "list"

\* C7: is_product_yaml holds exactly of the mappings with the six top-level
\* keys and a pricing mapping with the three pricing keys, so not of a
\* product with any one of them removed; a loaded document is dispatched as
\* a product when that test holds (whether or not it has a keywords list:
\* then no keyword is synced or counted), as a filter when it fails and the
\* document is a mapping with a list under keywords, and is skipped as an
\* unknown schema otherwise.
C7_ClassificationAndPrecedence ==
    LET d == TheFile.content
    IN  /\ is_product_yaml(d) = ClaimedProduct(d)
        /\ ClaimedProduct(d) =>
              /\ \A k \in required_top :
                    ~is_product_yaml([d EXCEPT !.keys = @ \ {k}])
              /\ \A k \in required_pricing :
                    ~is_product_yaml([d EXCEPT !.pricing_keys = @ \ {k}])
        /\ d.load # "map" => ~is_product_yaml(d) /\ ~is_filter_yaml(d)
        /\ (idx = 2 /\ ~LoadIsNone(d)) =>
              IF ClaimedProduct(d)
              THEN /\ Said(1, "Synced product") \/ Said(1, "Error upserting product")
                   /\ ~Said(1, "Synced keywords")
                   /\ ~Said(1, "Error syncing keywords")
                   /\ filter_keywords_synced = 0
                   /\ skipped = 0
                   /\ tx.filter_keywords = {}
                   /\ db.filter_keywords = {}
              ELSE IF ClaimedFilter(d)
              THEN /\ Said(1, "Synced keywords")
                   /\ filter_keywords_synced = Len(d.keywords)
                   /\ products_synced = 0
                   /\ skipped = 0
                   /\ tx.products = {}
              ELSE /\ Said(1, "Skipped unknown YAML schema")
                   /\ skipped = 1
                   /\ products_synced = 0
                   /\ filter_keywords_synced = 0
                   /\ tx = EmptyTables

\* a document that passes both tests was synced as a product and committed
C7_Witness ==
    /\ pc = "done"
    /\ committed
    /\ is_filter_yaml(TheFile.content)
    /\ ClaimedProduct(TheFile.content)
    /\ Said(1, "Synced product")
    /\ db.products # {}
    /\ db.filter_keywords = {}

\* needle occurs in name when case is ignored
ContainsIgnoringCase(name, needle) ==
    \E i \in 0..(Len(name) - Len(needle)) :
        \A j \in 1..Len(needle) : LowerChar(name[i + j]) = needle[j]

ClaimedType(path) ==
    IF \E n \in 1..Len(path) : ContainsIgnoringCase(path[n], s_reject) THEN "reject"
    ELSE IF \E n \in 1..Len(path) : ContainsIgnoringCase(path[n], s_boost) THEN "boost"
    ELSE "none"

\* C8: infer_filter_type gives "reject" when the file name or a directory
\* above it contains "reject" in any case, else "boost" when one contains
\* "boost", else no type; a filter file with no type is skipped: one
\* skipped file, no keyword counted, no row written; a typed one writes
\* rows of its type only.
C8_FilterTypeFromPath ==
    LET t == ClaimedType(TheFile.path)
    IN  /\ infer_filter_type(TheFile.path) = t
        /\ idx = 2 =>
              IF t = "none"
              THEN /\ Said(1, "Skipped filter file (unknown type)")
                   /\ skipped = 1
                   /\ filter_keywords_synced = 0
                   /\ tx.filter_keywords = {}
                   /\ db.filter_keywords = {}
              ELSE /\ skipped = 0
                   /\ filter_keywords_synced = Len(TheFile.content.keywords)
                   /\ \A r \in tx.filter_keywords \cup db.filter_keywords :
                         r.filter_type = t

\* a file named boost.yml under a directory REJECT was committed as reject
C8_Witness ==
    /\ pc = "done"
    /\ committed
    /\ TheFile.path = <<s_Products, s_REJECT, s_boost \o s_yml>>
    /\ FilterKeys(db.filter_keywords) = {<<"broken", "reject">>, <<"parts", "reject">>}
====
